---- MODULE Spec2Model ----
(***************************************************************************)
(* Action Gym fulfillment webhook (user-engagement codelab).               *)
(*                                                                         *)
(* The repository holds three variants of the same Dialogflow app:         *)
(*   "start" : src/start/functions/index.js                                *)
(*   "A"     : src/unnamed/part_000 lines 1-293   (intent names camelCase) *)
(*   "B"     : src/unnamed/part_000 lines 295-559 (intent names Title Case)*)
(* One variant is deployed at a time; the Firestore collection 'users'     *)
(* belongs to the Firebase project and outlives a deployment.              *)
(*                                                                         *)
(* Strings that are only compared are TLA+ strings.  Strings that are      *)
(* built by concatenation (the class list) are sequences of words.         *)
(***************************************************************************)
EXTENDS Integers, Sequences, FiniteSets, TLC

VARIABLES
    variant,        \* which of the three apps is deployed
    schedule,       \* schedule.days : day name -> list of {name, startTime}
    data,           \* conv.data: the session's key/value bag
    session,        \* "open" | "closed" (conv.close) | "error" (no response)
    pc,             \* "idle" | "writing" (a handler awaits db.add)
    intent,         \* conv.intent of the current/last turn, "none" before
    args,           \* the inputs of the current/last turn
    response,       \* the conv of the turn: responses and expectUserResponse
    users,          \* Firestore collection 'users', in insertion order
    batches,        \* one record per cancel-class dispatch
    fbRun,          \* history: consecutive fallback turns up to now
    allFallback     \* history: every turn of this session was a fallback

vars == <<variant, schedule, data, session, pc, intent, args,
          response, users, batches, fbRun, allFallback>>

---------------------------------------------------------------------------
(* Bounds of the model *)

MaxUsers == 2          \* documents in the 'users' collection
MaxBatches == 1        \* cancel-class dispatches started
MaxRepromptCount == 2  \* largest REPROMPT_COUNT the platform sends
MaxEntries == 3        \* schedule entries of one day
MaxFallbackRun == 4    \* fallback turns in a row the model follows

---------------------------------------------------------------------------
(* Constants of the program *)

Variants == {"start", "A", "B"}

DAYS == <<"Sunday", "Monday", "Tuesday", "Wednesday", "Thursday", "Friday",
          "Saturday">>

DaySet == {DAYS[i] : i \in 1..Len(DAYS)}

\* intent names registered with app.intent in each variant
IntentName ==
    [start |-> [welcome |-> "Welcome", quit |-> "Quit", hours |-> "Hours",
                classList |-> "Class List", noInput |-> "No Input",
                fallback |-> "Fallback"],
     A |-> [welcome |-> "welcome", quit |-> "quit", hours |-> "hours",
            classList |-> "classList", noInput |-> "noInput",
            fallback |-> "fallback", reminder |-> "reminder",
            notification |-> "notification",
            setupPush |-> "setupPushNotifications",
            confirmPush |-> "configurePushNotifications",
            classCanceled |-> "classCanceled",
            setupUpdates |-> "setupUpdates",
            confirmUpdates |-> "configureUpdates",
            setupRoutine |-> "setupRoutine",
            confirmRoutine |-> "configureRoutine",
            cancelClass |-> "cancelClass"],
     B |-> [welcome |-> "Welcome", quit |-> "Quit", hours |-> "Hours",
            classList |-> "Class List", noInput |-> "No Input",
            fallback |-> "Fallback", setupUpdates |-> "Setup Updates",
            confirmUpdates |-> "Confirm Updates",
            setupPush |-> "Setup Push Notifications",
            confirmPush |-> "Confirm Push Notifications",
            classCanceled |-> "Class Canceled",
            cancelClass |-> "Cancel Class"]]

Handles(v, kind) == kind \in DOMAIN IntentName[v]

\* the literal the middleware compares conv.intent with
MiddlewareFallbackName(v) == IF v = "A" THEN "fallback" ELSE "Fallback"

\* the topic written on opt-in and queried by the dispatch
Topic(v) == IF v = "A" THEN "classCanceled" ELSE "Class Canceled"

Suggestion ==
    [HOURS |-> "Ask about hours", CLASSES |-> "Learn about classes",
     REMINDER |-> "Set reminders", CANCELLATION |-> "Class cancellation",
     DAILY_UPDATE |-> "Send daily updates", ROUTINES |-> "Set up routines",
     NOTIFICATION |-> "Send notifications", DAILY |-> "Send daily reminders",
     NOTIFICATIONS |-> "Get notifications"]

---------------------------------------------------------------------------
(* The conversation object: conv.ask, conv.close, conv.data *)

\* conv.data of a session that has not stored anything yet
NoData == [k \in {} |-> 0]

NewConv == [responses |-> <<>>, expectUserResponse |-> TRUE]

Text(s) == [type |-> "text", text |-> s]

Suggestions(chips) == [type |-> "Suggestions", chips |-> chips]

Ask(conv, item) == [conv EXCEPT !.responses = Append(@, item)]

Close(conv, item) ==
    [conv EXCEPT !.responses = Append(@, item), !.expectUserResponse = FALSE]

\* deliberately wrong version, for sensitivity: the chips are added without looking at conv.screen
ChipsWhateverTheSurface(conv, screen, chips) == Ask(conv, Suggestions(chips))

\* if (conv.screen) conv.ask(new Suggestions([...]))
AskChips(conv, screen, chips) ==
    IF screen THEN Ask(conv, Suggestions(chips)) ELSE conv

\* what becomes of the session once the handler has returned
SessionAfter(conv) ==
    IF conv.responses = <<>> THEN "error"
    ELSE IF conv.expectUserResponse THEN "open" ELSE "closed"

NoArgs ==
    [screen |-> FALSE, day |-> "", dow |-> -1, updates |-> FALSE,
     repromptCount |-> -1, isFinal |-> FALSE, permission |-> FALSE,
     updatesUserId |-> "", conversationId |-> "", registered |-> "none",
     writeOk |-> FALSE]

\* !conv.data.fallbackCount : the key is missing, or holds 0
NoFallbackCount(d) == "fallbackCount" \notin DOMAIN d \/ d.fallbackCount = 0

\* deliberately wrong version, for sensitivity: the middleware resets the count on every turn
MiddlewareAlwaysResets(d, name, v) == [fallbackCount |-> 0]

\* app.middleware: runs before every intent handler
Middleware(d, name, v) ==
    IF NoFallbackCount(d) \/ ~(name = MiddlewareFallbackName(v))
    THEN [fallbackCount |-> 0]
    ELSE d

---------------------------------------------------------------------------
(* Class list: [...new Set(entries.map(format))].join(', ') *)

\* `${d.name} at ${d.startTime}` as a sequence of words
Format(d) == d.name \o <<"at">> \o d.startTime

MapFormat(entries) == [i \in 1..Len(entries) |-> Format(entries[i])]

InSeq(x, s) == \E i \in 1..Len(s) : s[i] = x

\* deliberately wrong version, for sensitivity: an array where the code has a Set
KeepsRepeats(list, acc) == acc \o list

\* new Set(list) spread back into an array: insertion order, no repeats
RECURSIVE SetOf(_, _)
SetOf(list, acc) ==
    IF list = <<>> THEN acc
    ELSE SetOf(Tail(list),
               IF InSeq(Head(list), acc) THEN acc ELSE Append(acc, Head(list)))

\* Array.prototype.join(', ')
RECURSIVE Join(_)
Join(list) ==
    IF list = <<>> THEN <<>>
    ELSE IF Len(list) = 1 THEN Head(list)
    ELSE Head(list) \o <<", ">> \o Join(Tail(list))

Classes(entries) == Join(SetOf(MapFormat(entries), <<>>))

\* if (!day) day = DAYS[new Date().getDay()]
ResolveDay(day, dow) == IF day = "" THEN DAYS[dow + 1] ELSE day

---------------------------------------------------------------------------
(* The intent handlers, as functions from the turn's inputs to the conv *)

WelcomeMessage ==
    "Welcome to Action Gym, your local gym here to support your health goals. You can ask me about our hours or what classes we offer each day."

WelcomeHandler(v, screen) ==
    AskChips(Ask(NewConv, Text(WelcomeMessage)), screen,
             IF v = "A"
             THEN <<Suggestion.HOURS, Suggestion.CLASSES,
                    Suggestion.CANCELLATION>>
             ELSE <<Suggestion.HOURS, Suggestion.CLASSES>>)

QuitHandler == Close(NewConv, Text("Great chatting with you!"))

HoursMessage ==
    "Our free weights and machines are available from 5am - 10pm, seven days a week. Can I help you with anything else?"

HoursHandler(screen) ==
    AskChips(Ask(NewConv, Text(HoursMessage)), screen, <<Suggestion.CLASSES>>)

\* the class-list message: `On ${day} we offer the following classes:
\* ${classes}. ` followed by the tail of the variant
ClassesMessage(day, classes, tail) ==
    [type |-> "classes", day |-> day, classes |-> classes, tail |-> tail]

FollowUpStart == "Can I help you with anything else?"

FollowUpA ==
    "If you'd like, I can send you reminders about our classes. Can I help you with anything else?"

FollowUpB ==
    "Would you like to receive daily reminders of upcoming classes, subscribe to notifications about cancelations, or can I help you with anything else?"

HopeToSeeYou == "Hope to see you soon at Action Gym!"

\* 'Class List' of the start variant and 'classList' of variant A: neither
\* reads conv.arguments.get('UPDATES')
ClassListPlain(v, day, classes, screen) ==
    AskChips(Ask(NewConv,
                 ClassesMessage(day, classes,
                                IF v = "A" THEN FollowUpA ELSE FollowUpStart)),
             screen,
             IF v = "A"
             THEN <<Suggestion.HOURS, Suggestion.REMINDER,
                    Suggestion.CANCELLATION>>
             ELSE <<Suggestion.HOURS>>)

\* deliberately wrong version, for sensitivity: variant B does not look at the UPDATES argument either
ClassListIgnoresUpdates(day, classes, engagement, screen) ==
    AskChips(Ask(NewConv, ClassesMessage(day, classes, FollowUpB)), screen,
             <<Suggestion.DAILY, Suggestion.NOTIFICATIONS, Suggestion.HOURS>>)

\* 'Class List' of variant B
ClassListEngagement(day, classes, engagement, screen) ==
    IF engagement
    THEN Close(NewConv, ClassesMessage(day, classes, HopeToSeeYou))
    ELSE AskChips(Ask(NewConv, ClassesMessage(day, classes, FollowUpB)),
                  screen,
                  <<Suggestion.DAILY, Suggestion.NOTIFICATIONS,
                    Suggestion.HOURS>>)

ClassListHandler(v, day, classes, engagement, screen) ==
    IF v = "B"
    THEN ClassListEngagement(day, classes, engagement, screen)
    ELSE ClassListPlain(v, day, classes, screen)

NoInputFirst == "Sorry, I can't hear you."

NoInputSecond == "I'm sorry, I still can't hear you."

NoInputFinal ==
    "I'm sorry, I'm having trouble here. Maybe we should try this again later."

\* deliberately wrong version, for sensitivity: the final-reprompt flag is looked at first
NoInputFinalFirst(repromptCount, isFinal) ==
    IF isFinal THEN Close(NewConv, Text(NoInputFinal))
    ELSE IF repromptCount = 0 THEN Ask(NewConv, Text(NoInputFirst))
    ELSE IF repromptCount = 1 THEN Ask(NewConv, Text(NoInputSecond))
    ELSE NewConv

\* the same in the three variants; no branch left means no response
NoInputHandler(repromptCount, isFinal) ==
    IF repromptCount = 0 THEN Ask(NewConv, Text(NoInputFirst))
    ELSE IF repromptCount = 1 THEN Ask(NewConv, Text(NoInputSecond))
    ELSE IF isFinal THEN Close(NewConv, Text(NoInputFinal))
    ELSE NewConv

FallbackMild == "Sorry, what was that?"

FallbackDetailed ==
    "I didn't quite get that. I can tell you our hours or what classes we offer each day."

FallbackClosing ==
    "Sorry, I'm still having trouble. So let's stop here for now. Bye."

\* deliberately wrong version, for sensitivity: the handler forgets to count
IncrementLost(d) == d

\* conv.data.fallbackCount++
Increment(d) == [d EXCEPT !.fallbackCount = @ + 1]

\* the branches of the fallback handler, on the incremented count
FallbackHandler(count) ==
    IF count = 1 THEN Ask(NewConv, Text(FallbackMild))
    ELSE IF count = 2 THEN Ask(NewConv, Text(FallbackDetailed))
    ELSE Close(NewConv, Text(FallbackClosing))

ReminderMessage ==
    "Great! I can send you the list of classes by sending you a daily updates. Let me know if you want me to send these to you."

ReminderHandler(screen) ==
    AskChips(Ask(NewConv, Text(ReminderMessage)), screen,
             <<Suggestion.DAILY_UPDATE>>)

MoreOptionsMessage ==
    "I can support you by sending you notifications when classes get cancelled due to emergencies. Let me know if you want me to send these to you."

NotificationHandler(screen) ==
    AskChips(Ask(NewConv, Text(MoreOptionsMessage)), screen,
             <<Suggestion.NOTIFICATION>>)

UpdatePermission(name) == [type |-> "UpdatePermission", intent |-> name]

RegisterUpdate(name, frequency) ==
    [type |-> "RegisterUpdate", intent |-> name, frequency |-> frequency]

SetupPushHandler(v) ==
    Ask(Ask(NewConv,
            Text("Update permission for setting up push notifications")),
        UpdatePermission(Topic(v)))

ClassCanceledHandler(v) ==
    Ask(NewConv,
        Text(IF v = "A" THEN "A class was canceled."
             ELSE "Classname at classtime has been canceled."))

\* deliberately wrong version, for sensitivity: a prompt goes with the helper, as in the push flow
SetupUpdatesWithPrompt(v) ==
    Ask(Ask(NewConv, Text("Update permission for setting up daily updates")),
        RegisterUpdate(IntentName[v].classList, "DAILY"))

\* the RegisterUpdate helper is the whole response
SetupUpdatesHandler(v) ==
    Ask(NewConv, RegisterUpdate(IntentName[v].classList, "DAILY"))

SetupRoutineHandler(v) ==
    Ask(NewConv, RegisterUpdate(IntentName[v].classList, "ROUTINES"))

UpdatesYes(v) ==
    IF v = "A"
    THEN "Gotcha, I'll send you an update everyday with the list of classes. Anything else I can help you with?"
    ELSE "Gotcha, I'll send you an update everyday with the list of classes. Can I help you with anything else?"

UpdatesNo(v) ==
    IF v = "A"
    THEN "Ok, I won't send you daily updates. Anything else I can help you with?"
    ELSE " I won't send you daily reminders. Can I help you with anything else?"

\* registered: "none" (no argument), "OK", or another status
ConfirmUpdatesHandler(v, registered, screen) ==
    AskChips(Ask(NewConv,
                 Text(IF registered = "OK" THEN UpdatesYes(v)
                      ELSE UpdatesNo(v))),
             screen,
             IF v = "A"
             THEN <<Suggestion.HOURS, Suggestion.CLASSES, Suggestion.REMINDER,
                    Suggestion.CANCELLATION>>
             ELSE <<Suggestion.HOURS, Suggestion.CLASSES>>)

ConfirmRoutineHandler(screen) ==
    AskChips(Ask(NewConv, Text("Anything else I can help you with?")), screen,
             <<Suggestion.HOURS, Suggestion.CLASSES, Suggestion.REMINDER,
               Suggestion.NOTIFICATION>>)

---------------------------------------------------------------------------
(* Push-notification opt-in: the confirmation handlers *)

\* conversation identifiers and UPDATES_USER_ID values of the model
\* ("" stands for an argument that is not there)
ConversationIds == {"c1"}

UpdatesUserIds == {"", "u1"}

\* deliberately wrong version, for sensitivity: the identifier of the permission flow is not looked at
ConversationIdOnly(updatesUserId, conversationId) == conversationId

\* let userId = conv.arguments.get('UPDATES_USER_ID');
\* if (!userId) userId = conv.request.conversation.conversationId
ResolveUserId(updatesUserId, conversationId) ==
    IF updatesUserId = "" THEN conversationId ELSE updatesUserId

\* the document handed to db.collection('users').add
SubscriberRecord(v, userId) == [intent |-> Topic(v), userId |-> userId]

OptInSuccess(v) ==
    IF v = "A"
    THEN "Cool, I'll notify you whenever there is a cancelation. Would you like anything else?"
    ELSE "Great, I'll notify you whenever there's a class cancelation. Can I help you with anything else?"

OptInDecline(v) ==
    IF v = "A"
    THEN "Okay, I won't notify you. Would you like anything else?"
    ELSE "Okay, I won't send you notifications about class cancelations. Can I help you with anything else?"

\* the else branch; variant B goes on to the suggestion chips
ConfirmPushDenied(v, screen) ==
    IF v = "A" THEN Ask(NewConv, Text(OptInDecline(v)))
    ELSE AskChips(Ask(NewConv, Text(OptInDecline(v))), screen,
                  <<Suggestion.CLASSES, Suggestion.HOURS>>)

\* deliberately wrong version, for sensitivity: the reply is composed next to the add, not in its then()
RepliesBeforeWrite(v) == Ask(NewConv, Text(OptInSuccess(v)))

\* return db.collection(...).add(...): the conv when the handler hands the
\* promise of the write back, nothing asked yet
ConfirmPushPending(v) == NewConv

\* .then(() => conv.ask(...)): runs once the write has succeeded
ConfirmPushGranted(v) == Ask(NewConv, Text(OptInSuccess(v)))

\* deliberately wrong version, for sensitivity: an upsert, which leaves a document that is already there alone
AddIfAbsent(coll, doc) == IF InSeq(doc, coll) THEN coll ELSE Append(coll, doc)

\* the collection after a successful add
Add(coll, doc) == Append(coll, doc)

---------------------------------------------------------------------------
(* Cancel class: the reply and the dispatch batch *)

CancelReply == "A notification has been sent to all subscribed users."

\* deliberately wrong version, for sensitivity: the reply is left to the callbacks
ReplyLeftToCallback == NewConv

CancelClassHandler == Ask(NewConv, Text(CancelReply))

NotificationTitle(v) ==
    IF v = "A" THEN "Notification Title"
    ELSE "Test Notification from Action Gym"

EmptyTarget == [k \in {} |-> ""]

\* let notification = {userNotification: {title}, target: {}}
NewNotification(v) ==
    [userNotification |-> [title |-> NotificationTitle(v)],
     target |-> EmptyTarget]

\* no token yet: the callback of client.authorize has not been given one
NoToken == <<>>

\* tokens.access_token: every authorization is given a token of its own
AccessToken(b) == <<"access_token", b>>

NewBatch(v) ==
    [topic |-> Topic(v), phase |-> "authorizing", token |-> NoToken,
     notification |-> NewNotification(v), seen |-> 0, calls |-> <<>>]

\* .where('intent', '==', topic).get(): the matching documents, each with
\* its place in the collection as its reference
RECURSIVE Where(_, _, _)
Where(coll, topic, i) ==
    IF i > Len(coll) THEN <<>>
    ELSE IF coll[i].intent = topic
         THEN <<[ref |-> i, userId |-> coll[i].userId,
                 intent |-> coll[i].intent]>> \o Where(coll, topic, i + 1)
         ELSE Where(coll, topic, i + 1)

\* notification.target = {userId: user.get('userId'), intent: ...}
SetTarget(notification, user) ==
    [notification EXCEPT
        !.target = [userId |-> user.userId, intent |-> user.intent]]

\* request.post(url, {auth: {bearer}, json: true, body}, callback): the body
\* is serialised when the request is made
Post(token, notification, user) ==
    [bearer |-> token,
     body |-> [customPushMessage |-> notification, isInSandbox |-> TRUE],
     ref |-> user.ref, state |-> "pending", status |-> ""]

\* deliberately wrong version, for sensitivity: the requests read the shared notification object after the loop
RECURSIVE LastTarget(_, _)
LastTarget(docs, notification) ==
    IF docs = <<>> THEN notification
    ELSE LastTarget(Tail(docs), SetTarget(notification, Head(docs)))

BodyReadAfterLoop(docs, token, notification, calls) ==
    [notification |-> LastTarget(docs, notification),
     calls |-> calls \o [i \in 1..Len(docs) |->
                            Post(token, LastTarget(docs, notification),
                                 docs[i])]]

\* querySnapshot.forEach over one shared notification object
RECURSIVE ForEach(_, _, _, _)
ForEach(docs, token, notification, calls) ==
    IF docs = <<>> THEN [notification |-> notification, calls |-> calls]
    ELSE LET n == SetTarget(notification, Head(docs))
         IN ForEach(Tail(docs), token, n,
                    Append(calls, Post(token, n, Head(docs))))

\* what the callback of request.post does with its outcome
PostOutcomes == {"200", "403", "ECONNRESET"}

\* deliberately wrong version, for sensitivity: an error status is thrown like a transport error
ThrowsOnErrorStatus(call, outcome) ==
    IF outcome = "200"
    THEN [call EXCEPT !.state = "logged", !.status = outcome]
    ELSE [call EXCEPT !.state = "thrown", !.status = outcome]

PostCallback(call, outcome) ==
    IF outcome = "ECONNRESET"
    THEN [call EXCEPT !.state = "thrown"]
    ELSE [call EXCEPT !.state = "logged", !.status = outcome]

\* deliberately wrong version, for sensitivity: err is not looked at, and the query goes ahead without a token
ProceedsOnAuthError(batch, err, token) ==
    IF err THEN [batch EXCEPT !.phase = "querying"]
    ELSE [batch EXCEPT !.phase = "querying", !.token = token]

\* client.authorize((err, tokens) => ...): an error is thrown, and nothing
\* of the callback runs after it
AuthorizeCallback(batch, err, token) ==
    IF err THEN [batch EXCEPT !.phase = "authError"]
    ELSE [batch EXCEPT !.phase = "querying", !.token = token]

\* .then((querySnapshot) => querySnapshot.forEach(...))
QueryThen(batch, coll) ==
    LET r == ForEach(Where(coll, batch.topic, 1), batch.token,
                     batch.notification, <<>>)
    IN [batch EXCEPT !.phase = "posted", !.notification = r.notification,
                     !.calls = r.calls, !.seen = Len(coll)]

\* .catch((error) => { throw ... })
QueryCatch(batch) == [batch EXCEPT !.phase = "queryError"]

---------------------------------------------------------------------------
(* Schedule data *)

Yoga6 == [name |-> <<"Yoga">>, startTime |-> <<"6am">>]

Spin7 == [name |-> <<"Spin">>, startTime |-> <<"7am">>]

\* two entries that differ and format to the same string
YogaAt == [name |-> <<"Yoga">>, startTime |-> <<"6am", "at", "7am">>]

YogaAt6 == [name |-> <<"Yoga", "at", "6am">>, startTime |-> <<"7am">>]

Entries == {Yoga6, Spin7, YogaAt, YogaAt6}

EntryLists == UNION {[1..n -> Entries] : n \in 0..MaxEntries}

ExampleDay == <<Yoga6, Yoga6, Spin7>>

ExampleSchedule == [d \in DaySet |-> ExampleDay]

---------------------------------------------------------------------------
(* State machine *)

FreshSession ==
    /\ data' = NoData
    /\ session' = "open"
    /\ intent' = "none"
    /\ args' = NoArgs
    /\ response' = NewConv
    /\ fbRun' = 0
    /\ allFallback' = TRUE

Init ==
    /\ variant \in Variants
    /\ schedule = ExampleSchedule
    /\ data = NoData
    /\ session = "open"
    /\ pc = "idle"
    /\ intent = "none"
    /\ args = NoArgs
    /\ response = NewConv
    /\ users = <<>>
    /\ batches = <<>>
    /\ fbRun = 0
    /\ allFallback = TRUE

\* the platform sends a turn of this kind to the deployed app
TurnOk(kind) ==
    /\ pc = "idle"
    /\ session = "open"
    /\ Handles(variant, kind)

\* middleware, then the handler's conv is sent back
Turn(kind, a, conv) ==
    /\ intent' = IntentName[variant][kind]
    /\ data' = Middleware(data, IntentName[variant][kind], variant)
    /\ args' = a
    /\ response' = conv
    /\ session' = SessionAfter(conv)
    /\ fbRun' = 0
    /\ allFallback' = FALSE
    /\ UNCHANGED <<variant, schedule, pc, users>>

Welcome ==
    \E screen \in BOOLEAN :
        /\ TurnOk("welcome")
        /\ Turn("welcome", [NoArgs EXCEPT !.screen = screen],
                WelcomeHandler(variant, screen))
        /\ UNCHANGED batches

Quit ==
    /\ TurnOk("quit")
    /\ Turn("quit", NoArgs, QuitHandler)
    /\ UNCHANGED batches

Hours ==
    \E screen \in BOOLEAN :
        /\ TurnOk("hours")
        /\ Turn("hours", [NoArgs EXCEPT !.screen = screen],
                HoursHandler(screen))
        /\ UNCHANGED batches

\* the inputs of a class-list turn; the clock is read only without a day
ClassListArgs(day, dow, updates, screen) ==
    [NoArgs EXCEPT !.day = day,
                   !.dow = dow,
                   !.updates = updates,
                   !.screen = screen]

\* new Date().getDay() is evaluated only when no day was given
ClockReads(day) == IF day = "" THEN 0..(Len(DAYS) - 1) ELSE {-1}

ClassList ==
    \E day \in DaySet \cup {""}, updates \in BOOLEAN, screen \in BOOLEAN :
        \E dow \in ClockReads(day) :
            /\ TurnOk("classList")
            /\ Turn("classList", ClassListArgs(day, dow, updates, screen),
                    ClassListHandler(variant, ResolveDay(day, dow),
                                     Classes(schedule[ResolveDay(day, dow)]),
                                     updates, screen))
            /\ UNCHANGED batches

NoInput ==
    \E repromptCount \in 0..MaxRepromptCount, isFinal \in BOOLEAN :
        /\ TurnOk("noInput")
        /\ Turn("noInput",
                [NoArgs EXCEPT !.repromptCount = repromptCount,
                               !.isFinal = isFinal],
                NoInputHandler(repromptCount, isFinal))
        /\ UNCHANGED batches

Fallback ==
    /\ TurnOk("fallback")
    /\ fbRun < MaxFallbackRun
    /\ LET d == Increment(Middleware(data, IntentName[variant].fallback,
                                     variant))
           conv == FallbackHandler(d.fallbackCount)
       IN /\ data' = d
          /\ response' = conv
          /\ session' = SessionAfter(conv)
    /\ intent' = IntentName[variant].fallback
    /\ args' = NoArgs
    /\ fbRun' = fbRun + 1
    /\ allFallback' = allFallback
    /\ UNCHANGED <<variant, schedule, pc, users, batches>>

Reminder ==
    \E screen \in BOOLEAN :
        /\ TurnOk("reminder")
        /\ Turn("reminder", [NoArgs EXCEPT !.screen = screen],
                ReminderHandler(screen))
        /\ UNCHANGED batches

Notification ==
    \E screen \in BOOLEAN :
        /\ TurnOk("notification")
        /\ Turn("notification", [NoArgs EXCEPT !.screen = screen],
                NotificationHandler(screen))
        /\ UNCHANGED batches

SetupPushNotifications ==
    /\ TurnOk("setupPush")
    /\ Turn("setupPush", NoArgs, SetupPushHandler(variant))
    /\ UNCHANGED batches

ClassCanceled ==
    /\ TurnOk("classCanceled")
    /\ Turn("classCanceled", NoArgs, ClassCanceledHandler(variant))
    /\ UNCHANGED batches

SetupUpdates ==
    /\ TurnOk("setupUpdates")
    /\ Turn("setupUpdates", NoArgs, SetupUpdatesHandler(variant))
    /\ UNCHANGED batches

ConfirmUpdates ==
    \E registered \in {"none", "OK", "CANCELLED"}, screen \in BOOLEAN :
        /\ TurnOk("confirmUpdates")
        /\ Turn("confirmUpdates",
                [NoArgs EXCEPT !.registered = registered, !.screen = screen],
                ConfirmUpdatesHandler(variant, registered, screen))
        /\ UNCHANGED batches

SetupRoutine ==
    /\ TurnOk("setupRoutine")
    /\ Turn("setupRoutine", NoArgs, SetupRoutineHandler(variant))
    /\ UNCHANGED batches

ConfirmRoutine ==
    \E screen \in BOOLEAN :
        /\ TurnOk("confirmRoutine")
        /\ Turn("confirmRoutine", [NoArgs EXCEPT !.screen = screen],
                ConfirmRoutineHandler(screen))
        /\ UNCHANGED batches

\* 'configurePushNotifications' / 'Confirm Push Notifications'.  With the
\* permission the handler returns the promise of db.add: the turn stays
\* pending until AddDone.
ConfirmPushNotifications ==
    \E permission \in BOOLEAN, updatesUserId \in UpdatesUserIds,
       conversationId \in ConversationIds, screen \in BOOLEAN :
        /\ TurnOk("confirmPush")
        /\ permission => Len(users) < MaxUsers
        /\ LET a == [NoArgs EXCEPT !.permission = permission,
                                   !.updatesUserId = updatesUserId,
                                   !.conversationId = conversationId,
                                   !.screen = screen]
           IN IF permission
              THEN /\ intent' = IntentName[variant].confirmPush
                   /\ data' = Middleware(data, IntentName[variant].confirmPush,
                                         variant)
                   /\ args' = a
                   /\ response' = ConfirmPushPending(variant)
                   /\ pc' = "writing"
                   /\ fbRun' = 0
                   /\ allFallback' = FALSE
                   /\ UNCHANGED <<variant, schedule, session, users>>
              ELSE Turn("confirmPush", a, ConfirmPushDenied(variant, screen))
        /\ UNCHANGED batches

\* the promise of db.add settles: then() composes the reply, a rejection
\* leaves the turn without a response
AddDone ==
    \E ok \in BOOLEAN :
        /\ pc = "writing"
        /\ pc' = "idle"
        /\ args' = [args EXCEPT !.writeOk = ok]
        /\ users' = IF ok
                    THEN Add(users,
                             SubscriberRecord(variant,
                                 ResolveUserId(args.updatesUserId,
                                               args.conversationId)))
                    ELSE users
        /\ response' = IF ok THEN ConfirmPushGranted(variant) ELSE response
        /\ session' = SessionAfter(response')
        /\ UNCHANGED <<variant, schedule, data, intent, batches, fbRun,
                       allFallback>>

\* 'cancelClass' / 'Cancel Class': client.authorize only registers its
\* callback; the reply is composed before the handler returns
CancelClass ==
    /\ TurnOk("cancelClass")
    /\ Len(batches) < MaxBatches
    /\ Turn("cancelClass", NoArgs, CancelClassHandler)
    /\ batches' = Append(batches, NewBatch(variant))

Authorize ==
    \E b \in 1..Len(batches), err \in BOOLEAN :
        /\ batches[b].phase = "authorizing"
        /\ batches' = [batches EXCEPT
                          ![b] = AuthorizeCallback(@, err, AccessToken(b))]
        /\ UNCHANGED <<variant, schedule, data, session, pc, intent, args,
                       response, users, fbRun, allFallback>>

QueryDone ==
    \E b \in 1..Len(batches), ok \in BOOLEAN :
        /\ batches[b].phase = "querying"
        /\ batches' = [batches EXCEPT
                          ![b] = IF ok THEN QueryThen(@, users)
                                 ELSE QueryCatch(@)]
        /\ UNCHANGED <<variant, schedule, data, session, pc, intent, args,
                       response, users, fbRun, allFallback>>

RequestDone ==
    \E b \in 1..Len(batches) :
        \E i \in 1..Len(batches[b].calls), outcome \in PostOutcomes :
            /\ batches[b].calls[i].state = "pending"
            /\ batches' = [batches EXCEPT
                              ![b].calls[i] = PostCallback(@, outcome)]
            /\ UNCHANGED <<variant, schedule, data, session, pc, intent,
                           args, response, users, fbRun, allFallback>>

\* a conversation ends or is abandoned and the platform starts a new one
NewSession ==
    /\ pc = "idle"
    /\ intent # "none"
    /\ FreshSession
    /\ UNCHANGED <<variant, schedule, pc, users, batches>>

\* firebase deploy of another variant to the same project
Deploy ==
    \E v \in Variants :
        /\ pc = "idle"
        /\ v # variant
        /\ variant' = v
        /\ FreshSession
        /\ UNCHANGED <<schedule, pc, users, batches>>

\* the conversational turns: every handler of the deployed variant
Turns ==
    \/ Welcome
    \/ Quit
    \/ Hours
    \/ ClassList
    \/ NoInput
    \/ Fallback
    \/ Reminder
    \/ Notification
    \/ SetupPushNotifications
    \/ ConfirmPushNotifications
    \/ AddDone
    \/ ClassCanceled
    \/ SetupUpdates
    \/ ConfirmUpdates
    \/ SetupRoutine
    \/ ConfirmRoutine
    \/ CancelClass
    \/ NewSession

\* the callbacks of a dispatch, which run after the turn has been answered
Callbacks ==
    \/ Authorize
    \/ QueryDone
    \/ RequestDone

\* The request path.  No handler reads the state of a dispatch, so its
\* callbacks are left to SpecDispatch and SpecAll.
Next == Turns \/ Deploy

Spec == Init /\ [][Next]_vars

\* Opt-in and dispatch.  The deployed variant has the two handlers; the
\* collection is empty or holds what an opt-in under the other variant,
\* deployed earlier to the same project, has left in it.
LeftBehind(v) ==
    {<<>>} \cup {<<SubscriberRecord(w, "u1")>> :
                    w \in {x \in Variants : Handles(x, "confirmPush")} \ {v}}

InitDispatch ==
    /\ variant \in {v \in Variants : Handles(v, "cancelClass")}
    /\ schedule = ExampleSchedule
    /\ data = NoData
    /\ session = "open"
    /\ pc = "idle"
    /\ intent = "none"
    /\ args = NoArgs
    /\ response = NewConv
    /\ users \in LeftBehind(variant)
    /\ batches = <<>>
    /\ fbRun = 0
    /\ allFallback = TRUE

NextDispatch ==
    \/ ConfirmPushNotifications
    \/ AddDone
    \/ CancelClass
    \/ NewSession
    \/ Callbacks

SpecDispatch == InitDispatch /\ [][NextDispatch]_vars

\* Everything together
NextAll == Turns \/ Callbacks

SpecAll == Init /\ [][NextAll]_vars

\* The class-list handler over every schedule of one day, the first or the
\* last of DAYS; the other days have no classes
ScheduledDays == {DAYS[1], DAYS[Len(DAYS)]}

InitClassList ==
    /\ variant \in Variants
    /\ schedule \in {[d \in DaySet |-> IF d = d0 THEN l ELSE <<>>] :
                        d0 \in ScheduledDays, l \in EntryLists}
    /\ data = NoData
    /\ session = "open"
    /\ pc = "idle"
    /\ intent = "none"
    /\ args = NoArgs
    /\ response = NewConv
    /\ users = <<>>
    /\ batches = <<>>
    /\ fbRun = 0
    /\ allFallback = TRUE

NextClassList == ClassList

SpecClassList == InitClassList /\ [][NextClassList]_vars

---------------------------------------------------------------------------
(* Fallback and no-input escalation *)

OnlyText(conv, s) == conv.responses = <<[type |-> "text", text |-> s]>>

\* C1: in a session made of fallback turns only, the first turn gets the
\* mild reprompt and the second the detailed one, both keeping the session
\* open; the third gets the closing message and ends the session; the
\* session ends at the third turn, not before, and there is no fourth.
C1_FallbackEscalation ==
    (allFallback /\ fbRun >= 1) =>
        /\ fbRun <= 3
        /\ intent = IntentName[variant].fallback
        /\ fbRun = 1 => OnlyText(response, FallbackMild)
        /\ fbRun = 2 => OnlyText(response, FallbackDetailed)
        /\ fbRun = 3 => OnlyText(response, FallbackClosing)
        /\ response.expectUserResponse = (fbRun < 3)
        /\ session = IF fbRun < 3 THEN "open" ELSE "closed"

C1_Witness ==
    /\ allFallback
    /\ fbRun = 3
    /\ session = "closed"
    /\ OnlyText(response, FallbackClosing)

CountOf(d) == IF "fallbackCount" \in DOMAIN d THEN d.fallbackCount ELSE 0

\* C6: a turn of any intent but the fallback intent, a no-input turn
\* included, leaves the fallback counter at 0 whatever it held before; a
\* fallback turn that continues (or starts) a run of fallback turns leaves
\* it exactly one higher than it was.
C6_CounterResetAndStep ==
    [][/\ (intent' # "none" /\ intent' # IntentName[variant'].fallback)
            => data' = [fallbackCount |-> 0]
       /\ fbRun' = fbRun + 1
            => /\ intent' = IntentName[variant'].fallback
               /\ data' = [fallbackCount |-> CountOf(data) + 1]
               /\ CountOf(data) = fbRun]_vars

C6_Witness ==
    /\ intent = IntentName[variant].noInput
    /\ data = [fallbackCount |-> 0]
    /\ ~allFallback

\* C8 as stated: reprompt count 0 gets the first reprompt and count 1 the
\* second, both keeping the session open, and every no-input turn flagged
\* as the final reprompt ends the session, whatever its reprompt count.
C8_AsStated ==
    intent = IntentName[variant].noInput =>
        /\ args.repromptCount = 0
            => OnlyText(response, NoInputFirst) /\ session = "open"
        /\ args.repromptCount = 1
            => OnlyText(response, NoInputSecond) /\ session = "open"
        /\ args.isFinal => session = "closed"

\* C8, amended: reprompt count 0 gets the first reprompt and count 1 the
\* second, both keeping the session open whatever the final-reprompt flag;
\* with any other count a turn flagged final gets the closing message and
\* ends the session; the handler ends the session in no other case.
C8_NoInputEscalation ==
    intent = IntentName[variant].noInput =>
        /\ args.repromptCount = 0
            => OnlyText(response, NoInputFirst) /\ session = "open"
        /\ args.repromptCount = 1
            => OnlyText(response, NoInputSecond) /\ session = "open"
        /\ (args.repromptCount \notin {0, 1} /\ args.isFinal)
            => OnlyText(response, NoInputFinal) /\ session = "closed"
        /\ session = "closed"
            => args.isFinal /\ args.repromptCount \notin {0, 1}

C8_Witness ==
    /\ intent = IntentName[variant].noInput
    /\ args.repromptCount = 2
    /\ args.isFinal
    /\ session = "closed"

---------------------------------------------------------------------------
(* Class list *)

IsClassListTurn ==
    /\ intent = IntentName[variant].classList
    /\ response.responses # <<>>

HasChips(conv) ==
    \E i \in 1..Len(conv.responses) : conv.responses[i].type = "Suggestions"

\* C9 as stated: in every variant a class-list turn that comes from a daily
\* update gets the shortened message without follow-up question and ends
\* the session, and one that does not keeps the session open.
C9_AsStated ==
    IsClassListTurn =>
        IF args.updates
        THEN response.responses[1].tail = HopeToSeeYou /\ session = "closed"
        ELSE session = "open"

\* C9, amended: this holds in variant B only ('Class List' with the UPDATES
\* argument).  The class-list handlers of the start variant and of variant
\* A keep the session open with their follow-up question whether or not
\* the turn comes from a daily update.
C9_DailyDigest ==
    IsClassListTurn =>
        IF variant = "B" /\ args.updates
        THEN /\ response.responses[1].tail = HopeToSeeYou
             /\ Len(response.responses) = 1
             /\ session = "closed"
        ELSE /\ response.responses[1].tail =
                    (CASE variant = "B" -> FollowUpB
                       [] variant = "A" -> FollowUpA
                       [] OTHER -> FollowUpStart)
             /\ HasChips(response) = args.screen
             /\ session = "open"

C9_Witness ==
    /\ IsClassListTurn
    /\ variant = "B"
    /\ args.updates
    /\ session = "closed"

\* the places of the first occurrences in a list of strings
FirstPlaces(strs) ==
    {i \in 1..Len(strs) : \A j \in 1..(i - 1) : strs[j] # strs[i]}

\* how many words and separators come before the first occurrence at i
Before(strs, i) ==
    LET earlier == {j \in FirstPlaces(strs) : j < i}
        RECURSIVE Words(_)
        Words(S) == IF S = {} THEN 0
                    ELSE LET j == CHOOSE x \in S : TRUE
                         IN Len(strs[j]) + 1 + Words(S \ {j})
    IN Words(earlier)

\* text is the first occurrences of strs, in their order, with one ", "
\* between two of them
IsJoinOfFirsts(text, strs) ==
    /\ Len(text) = IF strs = <<>> THEN 0 ELSE Before(strs, Len(strs) + 1) - 1
    /\ \A i \in FirstPlaces(strs) :
        /\ \A p \in 1..Len(strs[i]) : text[Before(strs, i) + p] = strs[i][p]
        /\ i > 1 => text[Before(strs, i)] = ", "

\* C10: the class list of the reply holds each distinct "name at time"
\* string of the resolved day's schedule once, in the order of first
\* occurrence, joined by ", "; the resolved day is the day parameter when
\* there is one and the current day of the week otherwise.
C10_ClassList ==
    IsClassListTurn =>
        LET m == response.responses[1]
            day == IF args.day # "" THEN args.day ELSE DAYS[args.dow + 1]
            strs == [i \in 1..Len(schedule[day]) |->
                        schedule[day][i].name \o <<"at">>
                            \o schedule[day][i].startTime]
        IN /\ m.type = "classes"
           /\ m.day = day
           /\ IsJoinOfFirsts(m.classes, strs)

C10_Witness ==
    /\ IsClassListTurn
    /\ args.day = ""
    /\ schedule[DAYS[args.dow + 1]] = <<Yoga6, Yoga6, Spin7>>
    /\ response.responses[1].classes =
            <<"Yoga", "at", "6am", ", ", "Spin", "at", "7am">>

---------------------------------------------------------------------------
(* Opt-in *)

IsConfirmPush(name, v) ==
    Handles(v, "confirmPush") /\ name = IntentName[v].confirmPush

\* the record the claim describes: the fixed topic and the identifier of
\* the permission flow, or the conversation identifier without one
ClaimedRecord(v, a) ==
    [intent |-> IF v = "A" THEN "classCanceled" ELSE "Class Canceled",
     userId |-> IF a.updatesUserId # "" THEN a.updatesUserId
                ELSE a.conversationId]

\* a step that ends an opt-in confirmation turn that had the permission
WriteSettles == pc = "writing" /\ pc' = "idle"

DeniedReply ==
    (IsConfirmPush(intent', variant') /\ ~args'.permission) =>
        /\ users' = users
        /\ response'.responses[1] =
                [type |-> "text", text |-> OptInDecline(variant')]

C7_AsStated ==
    [][/\ WriteSettles =>
            /\ Len(users') = Len(users) + 1
            /\ users'[Len(users')] = ClaimedRecord(variant, args)
       /\ \A i \in 1..Len(users) : i <= Len(users') /\ users'[i] = users[i]
      ]_vars

\* C7, amended: the collection only grows; every opt-in confirmation turn
\* with the permission whose write the store accepts adds one record, even
\* when an identical record is already there (n such turns leave n
\* records); a turn whose write is rejected adds none; no other step, a
\* dispatch whose delivery fails included, changes the collection.
C7_CollectionGrows ==
    [][/\ \A i \in 1..Len(users) : i <= Len(users') /\ users'[i] = users[i]
       /\ (WriteSettles /\ args'.writeOk) =>
            /\ Len(users') = Len(users) + 1
            /\ users'[Len(users')] = ClaimedRecord(variant, args)
       /\ ~(WriteSettles /\ args'.writeOk) => users' = users
      ]_vars

C7_Witness ==
    /\ Len(users) >= 2
    /\ users[1] = users[2]
    /\ \E b \in 1..Len(batches) :
        \E i \in 1..Len(batches[b].calls) :
            batches[b].calls[i].state = "thrown"

---------------------------------------------------------------------------
(* Dispatch *)

\* the documents of the topic among those the collection held at the query
Matching(batch) ==
    {j \in 1..batch.seen : users[j].intent = batch.topic}

\* C3: a dispatch that has authenticated and queried has issued exactly one
\* push call for each document of its topic, none for any other document
\* and none without a matching document; the target of each call holds the
\* user identifier and the topic of the document the call was issued for.
C3_OneCallPerSubscriber ==
    \A b \in 1..Len(batches) :
        LET batch == batches[b]
        IN IF batch.phase = "posted"
           THEN /\ batch.seen <= Len(users)
                /\ {batch.calls[i].ref : i \in 1..Len(batch.calls)}
                        = Matching(batch)
                /\ Len(batch.calls) = Cardinality(Matching(batch))
                /\ \A i \in 1..Len(batch.calls) :
                    batch.calls[i].body.customPushMessage.target =
                        [userId |-> users[batch.calls[i].ref].userId,
                         intent |-> users[batch.calls[i].ref].intent]
           ELSE batch.calls = <<>>

C3_Witness ==
    \E b \in 1..Len(batches) :
        /\ batches[b].phase = "posted"
        /\ Len(batches[b].calls) = 2
        /\ batches[b].calls[1].body.customPushMessage.target.userId
                # batches[b].calls[2].body.customPushMessage.target.userId

IsCancelClass(name, v) ==
    Handles(v, "cancelClass") /\ name = IntentName[v].cancelClass

\* C4: the cancel-class turn replies with the confirmation message and
\* keeps the session open; the reply is there when the handler returns,
\* with the authorization of its dispatch still outstanding and no call
\* issued; nothing the dispatch does afterwards (a failed authorization, a
\* failed query, a failed delivery, no subscriber) changes the reply.
C4_ReplyBeforeDispatch ==
    [][/\ IsCancelClass(intent', variant') =>
            /\ response'.responses = <<[type |-> "text", text |-> CancelReply]>>
            /\ response'.expectUserResponse
            /\ session' = "open"
       /\ Len(batches') > Len(batches) =>
            /\ IsCancelClass(intent', variant')
            /\ batches'[Len(batches')].phase = "authorizing"
            /\ batches'[Len(batches')].calls = <<>>
       /\ (Len(batches') = Len(batches) /\ batches' # batches) =>
            response' = response /\ session' = session
      ]_vars

C4_Witness ==
    /\ IsCancelClass(intent, variant)
    /\ response.responses = <<[type |-> "text", text |-> CancelReply]>>
    /\ session = "open"
    /\ \E b \in 1..Len(batches) : batches[b].phase = "authError"

\* every call of the dispatch is there once the query has returned, and
\* the callbacks add none
AllIssuedOnce ==
    \A b \in 1..Len(batches) :
        /\ batches'[b].phase = "posted" =>
                Len(batches'[b].calls) = Cardinality(
                    {j \in 1..batches'[b].seen :
                        users'[j].intent = batches'[b].topic})
        /\ batches[b].phase = "posted" =>
                /\ batches'[b].phase = "posted"
                /\ Len(batches'[b].calls) = Len(batches[b].calls)
                /\ \A i \in 1..Len(batches[b].calls) :
                    /\ batches'[b].calls[i].ref = batches[b].calls[i].ref
                    /\ batches[b].calls[i].state # "pending" =>
                            batches'[b].calls[i] = batches[b].calls[i]

\* C5 as stated: a failed delivery is only logged; it keeps no other call
\* from being issued, is not retried and is no unhandled error.
C5_AsStated ==
    [][/\ AllIssuedOnce
       /\ \A b \in 1..Len(batches') :
            \A i \in 1..Len(batches'[b].calls) :
                batches'[b].calls[i].state \in {"pending", "logged"}
      ]_vars

\* C5, amended: every push call of a batch is issued before any result
\* arrives, so a failed delivery keeps no other call from being issued,
\* and no call is retried.  A delivery the push API answers with an error
\* status is only logged.  A delivery that fails with a transport error is
\* thrown from the callback with nothing to catch it: it is an unhandled
\* error of the process, and the calls still in flight may not complete.
C5_DeliveryFailure ==
    [][/\ AllIssuedOnce
       /\ \A b \in 1..Len(batches') :
            \A i \in 1..Len(batches'[b].calls) :
                LET call == batches'[b].calls[i]
                IN /\ call.state = "logged" <=> call.status \in {"200", "403"}
                   /\ call.state = "thrown" <=> 
                        (call.status = "" /\ call.state # "pending")
                   /\ call.state \in {"pending", "logged", "thrown"}
      ]_vars

C5_Witness ==
    \E b \in 1..Len(batches) :
        /\ Len(batches[b].calls) = 2
        /\ batches[b].calls[1].state = "logged"
        /\ batches[b].calls[1].status = "403"
        /\ batches[b].calls[2].state = "thrown"

---------------------------------------------------------------------------
(* The response of a turn *)

\* a turn has been handled and its handler, promise included, has returned
Handled == intent # "none" /\ pc = "idle"

HasText(conv) ==
    \E i \in 1..Len(conv.responses) :
        conv.responses[i].type \in {"text", "classes"}

IsKind(kind) == Handles(variant, kind) /\ intent = IntentName[variant][kind]

\* the turns whose handler returns without a response
NoBranchTaken ==
    \/ IsKind("noInput") /\ args.repromptCount \notin {0, 1} /\ ~args.isFinal
    \/ IsKind("confirmPush") /\ args.permission /\ ~args.writeOk

C12_ChipsOnlyOnScreen ==
    /\ HasChips(response) => args.screen
    /\ HasChips(response) =>
            response.expectUserResponse /\ session = "open"
    /\ (Handled /\ ~args.screen) => ~HasChips(response)
    /\ session = "closed" => ~HasChips(response)

C12_Witness ==
    /\ Handled
    /\ IsKind("confirmPush")
    /\ ~args.permission
    /\ args.screen
    /\ HasChips(response)
    /\ session = "open"

---------------------------------------------------------------------------
(* Authentication of a dispatch *)

\* the steps a batch takes: it is authorized once, queries once after a
\* successful authorization and posts once after a successful query
BatchStep(old, new) ==
    \/ new = old
    \/ /\ old.phase = "authorizing"
       /\ new.phase \in {"authError", "querying"}
       /\ new.calls = <<>>
    \/ /\ old.phase = "querying"
       /\ new.phase \in {"queryError", "posted"}
       /\ new.token = old.token
    \/ /\ old.phase = "posted"
       /\ new.phase = "posted"
       /\ new.token = old.token
       /\ Len(new.calls) = Len(old.calls)

\* C13: a batch is authorized once; it issues no push call before the
\* authorization has given it a token and the subscriber query has
\* returned; every call of the batch carries the token of that
\* authorization; a batch whose authorization or query fails issues none.
C13_AuthenticateOnce ==
    [][\A b \in 1..Len(batches') :
        LET new == batches'[b]
        IN /\ b <= Len(batches) => BatchStep(batches[b], new)
           /\ b > Len(batches) =>
                new.phase = "authorizing" /\ new.calls = <<>>
           /\ new.phase \in {"authorizing", "authError"} =>
                new.token = NoToken
           /\ new.phase \in {"querying", "queryError", "posted"} =>
                new.token = AccessToken(b)
           /\ new.phase # "posted" => new.calls = <<>>
           /\ \A i \in 1..Len(new.calls) :
                new.calls[i].bearer = AccessToken(b)
      ]_vars

C13_Witness ==
    \E b \in 1..Len(batches) :
        /\ batches[b].phase = "posted"
        /\ Len(batches[b].calls) = 2
        /\ \A i \in 1..2 : batches[b].calls[i].bearer = batches[b].token
        /\ batches[b].token = AccessToken(b)

---------------------------------------------------------------------------
(* The reply of a granted opt-in *)

SaysSubscribed(conv) ==
    \E i \in 1..Len(conv.responses) :
        /\ conv.responses[i].type = "text"
        /\ conv.responses[i].text \in {OptInSuccess(v) : v \in {"A", "B"}}

\* C14: in an opt-in confirmation turn with the permission, the success
\* reply is composed only after the write of the subscriber record has
\* succeeded: there is none while the write is outstanding and none when
\* the write has failed, so wherever a response says the user is
\* subscribed the collection holds the record of that user.
C14_ReplyAfterWrite ==
    /\ pc = "writing" => response.responses = <<>>
    /\ (Handled /\ IsKind("confirmPush") /\ args.permission) =>
            IF args.writeOk
            THEN /\ OnlyText(response, OptInSuccess(variant))
                 /\ session = "open"
                 /\ users # <<>>
                 /\ users[Len(users)] = ClaimedRecord(variant, args)
            ELSE /\ ~SaysSubscribed(response)
                 /\ response.responses = <<>>
    /\ SaysSubscribed(response) =>
            /\ IsKind("confirmPush")
            /\ args.permission /\ args.writeOk
            /\ \E j \in 1..Len(users) : users[j] = ClaimedRecord(variant, args)

C14_Witness ==
    /\ Handled
    /\ IsKind("confirmPush")
    /\ args.permission
    /\ ~args.writeOk
    /\ ~SaysSubscribed(response)
    /\ \A j \in 1..Len(users) : users[j] # ClaimedRecord(variant, args)

====
